---- MODULE Spec2Model ----
(***************************************************************************)
(* Model of streamlit_app.py: the temperature / humidity dashboard.        *)
(* One run of the script is a chain                                        *)
(*   bounds -> sidebar -> filter -> aggregate -> KPIs -> location          *)
(*   selection -> charts (two pivots) -> CSV download,                     *)
(* which ends early with st.stop() when the aggregate is empty and with an *)
(* exception when a library call raises.  Timestamps are whole seconds,    *)
(* averages are exact rationals, strings are TLA+ strings.                 *)
(***************************************************************************)
EXTENDS Integers, Sequences, FiniteSets, TLC

VARIABLES base_df, pc, rerun, prev,
          min_ts, max_ts, default_start,
          start_dt, end_dt, granularity, sel_sites, sel_rooms,
          df, pdf, info, kpi, metric,
          sel_locs, plot_df, temp_wide, hum_wide, download

widgets == <<start_dt, end_dt, granularity, sel_sites, sel_rooms>>
boundsv == <<min_ts, max_ts, default_start>>
charts  == <<temp_wide, hum_wide>>
vars == <<base_df, pc, rerun, prev, min_ts, max_ts, default_start,
          start_dt, end_dt, granularity, sel_sites, sel_rooms,
          df, pdf, info, kpi, metric,
          sel_locs, plot_df, temp_wide, hum_wide, download>>

(***************************************************************************)
(* Bounds of the model.                                                    *)
(***************************************************************************)
\* Largest number of rows of telemetry_curated.
MaxReadings == 3

(***************************************************************************)
(* Time.  DATE_TRUNC works on the calendar fields of a timestamp.          *)
(***************************************************************************)
SecPerMin == 60
MinPerHour == 60
HourPerDay == 24
SecPerHour == SecPerMin * MinPerHour
SecPerDay == SecPerHour * HourPerDay

\* The timestamp with the given calendar fields (day number, hour, minute, second).
TS(d, h, m, s) == ((d * HourPerDay + h) * MinPerHour + m) * SecPerMin + s

DayOf(t) == t \div SecPerDay
HourOf(t) == (t % SecPerDay) \div SecPerHour
MinuteOf(t) == (t % SecPerHour) \div SecPerMin

\* pandas' NaT / None: what MIN(ts) and MAX(ts) of no rows come back as.
NaT == -1

\* SQL NULL in a string column.
NULL == "<NULL>"

\* pd.Timestamp.utcnow() of this run.
UtcNow == TS(2, 12, 0, 0)

\* Timestamp.date() and Timestamp.time(), datetime.combine(date, time).
DateOf(t) == DayOf(t)
TimeOf(t) == t % SecPerDay
Combine(d, tm) == d * SecPerDay + tm

Granularities == {"minute", "hour", "day"}

\* A truncation that rounds the hour to the nearest one instead.
DateTruncNearest(part, t) ==
    CASE part = "minute" -> TS(DayOf(t), HourOf(t), MinuteOf(t), 0)
      [] part = "hour"   -> TS(DayOf(t), HourOf(t) + (IF MinuteOf(t) >= 30 THEN 1 ELSE 0), 0, 0)
      [] part = "day"    -> TS(DayOf(t), 0, 0, 0)
\* DATE_TRUNC(part, ts): the fields below `part` are set to zero.
DATE_TRUNC(part, t) ==
    CASE part = "minute" -> TS(DayOf(t), HourOf(t), MinuteOf(t), 0)
      [] part = "hour"   -> TS(DayOf(t), HourOf(t), 0, 0)
      [] part = "day"    -> TS(DayOf(t), 0, 0, 0)

(***************************************************************************)
(* Exact rationals for AVG and mean; 0/0 is NaN.                           *)
(***************************************************************************)
RECURSIVE GCD(_, _)
GCD(a, b) == IF b = 0 THEN a ELSE GCD(b, a % b)

Abs(n) == IF n < 0 THEN 0 - n ELSE n

Rat(n, d) == LET g == GCD(Abs(n), d) IN [num |-> n \div g, den |-> d \div g]
NaN == [num |-> 0, den |-> 0]
IsNaN(q) == q.den = 0
RatAdd(p, q) == Rat(p.num * q.den + q.num * p.den, p.den * q.den)
RatLess(p, q) == p.num * q.den < q.num * p.den

(***************************************************************************)
(* The table telemetry_curated.                                            *)
(***************************************************************************)
Reading(t, s, r, id, temp, hum) ==
    [ts |-> t, site |-> s, room |-> r, sensor_id |-> id, temp_c |-> temp, humidity |-> hum]

\* The readings a table is drawn from.
Catalogue ==
    { Reading(TS(0, 8, 0, 0),   "A",       "101",     "s1", 20, 50),
      Reading(TS(0, 8, 30, 0),  "A",       "101",     "s1", 22, 52),
      Reading(TS(0, 8, 30, 20), "A",       "101",     "s7", 25, 55),
      Reading(TS(0, 8, 30, 59), "A",       "101 / X", "s3", 23, 41),
      Reading(TS(0, 8, 30, 5),  "A / 101", "X",       "s4", 25, 45),
      Reading(TS(1, 0, 30, 0),  NULL,      "101",     "s5", 19, 60),
      Reading(TS(1, 0, 30, 40), "None",    "101",     "s6", 18, 61) }

\* The times of day the operator enters.
TimeSamples == { TimeOf(TS(0, 8, 0, 0)), TimeOf(TS(0, 8, 30, 20)) }

Tables == { t \in SUBSET Catalogue : Cardinality(t) <= MaxReadings }

NoRows == << >>
None == << >>

Init ==
    /\ base_df \in Tables
    /\ pc = "bounds"
    /\ rerun = FALSE
    /\ prev = None
    /\ min_ts = NaT /\ max_ts = NaT /\ default_start = NaT
    /\ start_dt = NaT /\ end_dt = NaT
    /\ granularity = "minute"
    /\ sel_sites = {} /\ sel_rooms = {}
    /\ df = {}
    /\ pdf = NoRows
    /\ info = None
    /\ kpi = None /\ metric = None
    /\ sel_locs = {}
    /\ plot_df = NoRows
    /\ temp_wide = None /\ hum_wide = None
    /\ download = None

(***************************************************************************)
(* Bounds Resolver: SELECT MIN(ts), MAX(ts) FROM telemetry_curated.        *)
(***************************************************************************)
SetMin(S) == CHOOSE x \in S : \A y \in S : x <= y
SetMax(S) == CHOOSE x \in S : \A y \in S : y <= x

\* An aggregate query without GROUP BY returns one row whatever the table
\* holds; MIN and MAX of no rows are NULL.
BoundsQuery(table) ==
    LET tss == { r.ts : r \in table }
    IN  << [MIN_TS |-> IF tss = {} THEN NaT ELSE SetMin(tss),
            MAX_TS |-> IF tss = {} THEN NaT ELSE SetMax(tss)] >>

\* DataFrame.empty
Empty(frame) == Len(frame) = 0

\* Timestamp - Timedelta; NaT stays NaT.
Minus(t, delta) == IF t = NaT THEN NaT ELSE t - delta

ResolveBounds ==
    /\ pc = "bounds"
    /\ LET bounds == BoundsQuery(base_df)
       IN  /\ min_ts' = IF ~Empty(bounds) THEN bounds[1].MIN_TS
                                          ELSE Minus(UtcNow, SecPerDay)
           /\ max_ts' = IF ~Empty(bounds) THEN bounds[1].MAX_TS
                                          ELSE UtcNow
    /\ default_start' = Minus(max_ts', SecPerHour)
    /\ pc' = "sidebar"
    /\ UNCHANGED <<base_df, rerun, prev, widgets, df, pdf, info, kpi, metric,
                   sel_locs, plot_df, charts, download>>

(***************************************************************************)
(* Sidebar: the date range, the two times, the granularity, the site and   *)
(* room selections; then the two bounds of the range are composed.         *)
(***************************************************************************)
\* SELECT DISTINCT col ... .dropna().tolist()
Options(table, column) == { r[column] : r \in table } \ {NULL}

\* NaT.date() raises; st.date_input raises when the default value lies
\* outside [min_value, max_value].
DateInputRaises ==
    \/ default_start = NaT \/ min_ts = NaT \/ max_ts = NaT
    \/ DateOf(default_start) < DateOf(min_ts)

Sidebar ==
    /\ pc = "sidebar"
    /\ IF DateInputRaises
       THEN /\ pc' = "raised_sidebar"
            /\ UNCHANGED widgets
       ELSE /\ pc' = "filter"
            /\ IF rerun
               THEN UNCHANGED widgets
               ELSE /\ \E start_date \in DateOf(min_ts) .. DateOf(max_ts) :
                       \E end_date \in start_date .. DateOf(max_ts) :
                       \E start_time \in TimeSamples, end_time \in TimeSamples :
                          /\ start_dt' = Combine(start_date, start_time)
                          /\ end_dt' = Combine(end_date, end_time)
                    /\ granularity' \in Granularities
                    /\ sel_sites' \in SUBSET Options(base_df, "site")
                    /\ sel_rooms' \in SUBSET Options(base_df, "room")
    /\ UNCHANGED <<base_df, rerun, prev, boundsv, df, pdf, info, kpi, metric,
                   sel_locs, plot_df, charts, download>>

(***************************************************************************)
(* Filter Builder, evaluated by the warehouse with SQL's three-valued      *)
(* logic: a row is kept when the predicate is true, not when it is null.   *)
(***************************************************************************)
SqlGe(a, b) == IF a = NaT \/ b = NaT THEN "null" ELSE IF a >= b THEN "true" ELSE "false"
SqlLe(a, b) == IF a = NaT \/ b = NaT THEN "null" ELSE IF a <= b THEN "true" ELSE "false"
SqlAnd(p, q) ==
    IF p = "false" \/ q = "false" THEN "false"
    ELSE IF p = "true" /\ q = "true" THEN "true" ELSE "null"
SqlIsIn(v, list) == IF v = NULL THEN "null" ELSE IF v \in list THEN "true" ELSE "false"

\* A range test that leaves the upper bound out.
InRangeExclusive(r, lo, hi) == SqlAnd(SqlGe(r.ts, lo), SqlLe(r.ts, hi - 1))
\* (col("ts") >= lit(start_dt)) & (col("ts") <= lit(end_dt))
InRange(r, lo, hi) == SqlAnd(SqlGe(r.ts, lo), SqlLe(r.ts, hi))

\* base_df.filter(...), then .filter(isin) for each non-empty selection.
FilterRows(table, lo, hi, sites, rooms) ==
    LET d0 == { r \in table : InRange(r, lo, hi) = "true" }
        d1 == IF sites # {} THEN { r \in d0 : SqlIsIn(r.site, sites) = "true" } ELSE d0
        d2 == IF rooms # {} THEN { r \in d1 : SqlIsIn(r.room, rooms) = "true" } ELSE d1
    IN  d2

Filter ==
    /\ pc = "filter"
    /\ df' = FilterRows(base_df, start_dt, end_dt, sel_sites, sel_rooms)
    /\ pc' = "aggregate"
    /\ UNCHANGED <<base_df, rerun, prev, boundsv, widgets, pdf, info, kpi, metric,
                   sel_locs, plot_df, charts, download>>

(***************************************************************************)
(* Bucketing Aggregator: GROUP BY (DATE_TRUNC(granularity, ts), site,      *)
(* room) with AVG(temp_c) and AVG(humidity), ORDER BY ts_bucket, fetched   *)
(* into pandas.                                                            *)
(***************************************************************************)
RECURSIVE SumOf(_, _)
SumOf(rows, column) ==
    IF rows = {} THEN 0
    ELSE LET r == CHOOSE x \in rows : TRUE
         IN  r[column] + SumOf(rows \ {r}, column)

\* An average taken with integer division.
AvgIntegerDivision(rows, column) == Rat(SumOf(rows, column) \div Cardinality(rows), 1)
\* SQL AVG over the rows of one group: SUM / COUNT.
AVG(rows, column) == Rat(SumOf(rows, column), Cardinality(rows))

\* The grouping key of a reading.
GroupKey(r, part) == <<DATE_TRUNC(part, r.ts), r.site, r.room>>

\* df.select(...).group_by("ts_bucket", "site", "room").agg(...): one row per
\* key that some reading has.
GroupByAgg(rows, part) ==
    { LET grp == { r \in rows : GroupKey(r, part) = k }
      IN  [TS_BUCKET |-> k[1], SITE |-> k[2], ROOM |-> k[3],
           AVG_TEMP_C |-> AVG(grp, "temp_c"),
           AVG_HUMIDITY |-> AVG(grp, "humidity")]
      : k \in { GroupKey(r, part) : r \in rows } }

\* The orders in which the rows of a set can be listed.
Listings(S) ==
    LET n == Cardinality(S)
    IN  { f \in [1 .. n -> S] : \A i, j \in 1 .. n : i # j => f[i] # f[j] }

\* ORDER BY ts_bucket: ascending in the one sort key; the warehouse returns
\* rows of equal key in any order.
SortByBucket(rows) ==
    { f \in Listings(rows) :
        \A i, j \in 1 .. Len(f) : i < j => f[i].TS_BUCKET <= f[j].TS_BUCKET }

Aggregate ==
    /\ pc = "aggregate"
    /\ pdf' \in SortByBucket(GroupByAgg(df, granularity))
    /\ pc' = "kpis"
    /\ UNCHANGED <<base_df, rerun, prev, boundsv, widgets, df, info, kpi, metric,
                   sel_locs, plot_df, charts, download>>

(***************************************************************************)
(* Empty-result short-circuit and the four KPIs.                           *)
(***************************************************************************)
\* The column of a frame as a list of values.
Column(frame, column) == [i \in 1 .. Len(frame) |-> frame[i][column]]

RECURSIVE SeqSum(_)
SeqSum(s) == IF Len(s) = 0 THEN Rat(0, 1) ELSE RatAdd(s[1], SeqSum(Tail(s)))

Range(s) == { s[i] : i \in 1 .. Len(s) }

\* A mean over the distinct values of the series, each once.
SeriesMeanDistinct(s) ==
    IF Len(s) = 0 THEN NaN
    ELSE LET vals == Range(s)
             one == CHOOSE f \in Listings(vals) : TRUE
             t == SeqSum(one)
         IN  Rat(t.num, t.den * Len(one))
\* Series.mean(), .max(), .min(); NaN for a series without values.
SeriesMean(s) ==
    IF Len(s) = 0 THEN NaN
    ELSE LET t == SeqSum(s) IN Rat(t.num, t.den * Len(s))
SeriesMax(s) ==
    IF Len(s) = 0 THEN NaN
    ELSE CHOOSE x \in Range(s) : \A y \in Range(s) : ~RatLess(x, y)
SeriesMin(s) ==
    IF Len(s) = 0 THEN NaN
    ELSE CHOOSE x \in Range(s) : \A y \in Range(s) : ~RatLess(y, x)

RECURSIVE Pow10(_)
Pow10(k) == IF k = 0 THEN 1 ELSE 10 * Pow10(k - 1)

\* f"{q:.<places>f}": q rounded to `places` decimals, ties to even; the
\* result is the number of units of 10^-places.
Format(q, places) ==
    IF IsNaN(q) THEN [places |-> places, units |-> 0, nan |-> TRUE]
    ELSE LET n == q.num * Pow10(places)
             fl == n \div q.den
             rem == n % q.den
             up == \/ 2 * rem > q.den
                   \/ 2 * rem = q.den /\ fl % 2 = 1
         IN  [places |-> places, units |-> IF up THEN fl + 1 ELSE fl, nan |-> FALSE]

\* The values the four st.metric calls are given before formatting.
Kpis(frame) ==
    [avg_temp |-> SeriesMean(Column(frame, "AVG_TEMP_C")),
     avg_humidity |-> SeriesMean(Column(frame, "AVG_HUMIDITY")),
     max_temp |-> SeriesMax(Column(frame, "AVG_TEMP_C")),
     min_temp |-> SeriesMin(Column(frame, "AVG_TEMP_C"))]

\* What the four st.metric calls show.
Metrics(k) ==
    [avg_temp |-> Format(k.avg_temp, 2),
     avg_humidity |-> Format(k.avg_humidity, 1),
     max_temp |-> Format(k.max_temp, 2),
     min_temp |-> Format(k.min_temp, 2)]

\* A test that never takes the empty branch.
NeverEmpty(frame) == FALSE
\* `if pdf.empty:`
PdfEmpty(frame) == Empty(frame)

ComputeKpis ==
    /\ pc = "kpis"
    /\ IF PdfEmpty(pdf)
       THEN /\ info' = <<"No data found for the selected filters.">>
            /\ pc' = "stopped"
            /\ UNCHANGED <<kpi, metric>>
       ELSE /\ kpi' = <<Kpis(pdf)>>
            /\ metric' = <<Metrics(Kpis(pdf))>>
            /\ pc' = "select"
            /\ UNCHANGED info
    /\ UNCHANGED <<base_df, rerun, prev, boundsv, widgets, df, pdf,
                   sel_locs, plot_df, charts, download>>

(***************************************************************************)
(* Location label, location selection, the rows to plot.                   *)
(***************************************************************************)
\* Series.astype(str): a null value becomes the text "None".
AsStr(v) == IF v = NULL THEN "None" ELSE v

Location(row) == AsStr(row.SITE) \o " / " \o AsStr(row.ROOM)

\* pdf["location"] = ...
WithLocation(frame) ==
    [i \in 1 .. Len(frame) |->
        [TS_BUCKET |-> frame[i].TS_BUCKET, SITE |-> frame[i].SITE, ROOM |-> frame[i].ROOM,
         AVG_TEMP_C |-> frame[i].AVG_TEMP_C, AVG_HUMIDITY |-> frame[i].AVG_HUMIDITY,
         location |-> Location(frame[i])]]

\* frame[frame["location"].isin(sel)]: the rows kept, in the frame's order.
Restrict(frame, sel) == SelectSeq(frame, LAMBDA row : row.location \in sel)

SelectLocations ==
    /\ pc = "select"
    /\ pdf' = WithLocation(pdf)
    /\ LET locations == { pdf'[i].location : i \in 1 .. Len(pdf') }
       IN  IF rerun THEN UNCHANGED sel_locs
                    ELSE sel_locs' \in SUBSET locations
    /\ plot_df' = Restrict(pdf', sel_locs')
    /\ pc' = "charts"
    /\ UNCHANGED <<base_df, rerun, prev, boundsv, widgets, df, info, kpi, metric,
                   charts, download>>

(***************************************************************************)
(* Wide reshape: DataFrame.pivot(index=TS_BUCKET, columns=location,        *)
(* values=...).sort_index(), once per metric.                              *)
(***************************************************************************)
RECURSIVE Ascending(_)
Ascending(S) ==
    IF S = {} THEN << >>
    ELSE LET m == SetMin(S) IN <<m>> \o Ascending(S \ {m})

\* pivot raises ValueError when two rows have the same (index, column) pair.
HasDuplicates(frame) ==
    \E i, j \in 1 .. Len(frame) :
        /\ i # j
        /\ frame[i].TS_BUCKET = frame[j].TS_BUCKET
        /\ frame[i].location = frame[j].location

Pivot(frame, values) ==
    LET idx == { frame[i].TS_BUCKET : i \in 1 .. Len(frame) }
        cols == { frame[i].location : i \in 1 .. Len(frame) }
    IN  [index |-> Ascending(idx),
         columns |-> cols,
         cell |-> [c \in idx \X cols |->
                     IF \E i \in 1 .. Len(frame) :
                           frame[i].TS_BUCKET = c[1] /\ frame[i].location = c[2]
                     THEN LET i == CHOOSE i \in 1 .. Len(frame) :
                                      frame[i].TS_BUCKET = c[1] /\ frame[i].location = c[2]
                          IN  frame[i][values]
                     ELSE NaN]]

Charts ==
    /\ pc = "charts"
    /\ IF Empty(plot_df)
       THEN /\ pc' = "download"
            /\ UNCHANGED charts
       ELSE IF HasDuplicates(plot_df)
       THEN /\ pc' = "raised_charts"
            /\ UNCHANGED charts
       ELSE /\ temp_wide' = <<Pivot(plot_df, "AVG_TEMP_C")>>
            /\ hum_wide' = <<Pivot(plot_df, "AVG_HUMIDITY")>>
            /\ pc' = "download"
    /\ UNCHANGED <<base_df, rerun, prev, boundsv, widgets, df, pdf, info, kpi, metric,
                   sel_locs, plot_df, download>>

(***************************************************************************)
(* CSV export: df.to_csv(index=False), a header line and one line per row  *)
(* in the frame's order; a null value is written as the empty text.        *)
(***************************************************************************)
CsvStr(v) == IF v = NULL THEN "" ELSE v

convert_for_download(frame) ==
    << <<"TS_BUCKET", "SITE", "ROOM", "AVG_TEMP_C", "AVG_HUMIDITY", "location">> >>
    \o [i \in 1 .. Len(frame) |->
          [TS_BUCKET |-> frame[i].TS_BUCKET,
           SITE |-> CsvStr(frame[i].SITE),
           ROOM |-> CsvStr(frame[i].ROOM),
           AVG_TEMP_C |-> frame[i].AVG_TEMP_C,
           AVG_HUMIDITY |-> frame[i].AVG_HUMIDITY,
           location |-> frame[i].location]]

Download ==
    /\ pc = "download"
    /\ download' = <<convert_for_download(plot_df)>>
    /\ pc' = "done"
    /\ UNCHANGED <<base_df, rerun, prev, boundsv, widgets, df, pdf, info, kpi, metric,
                   sel_locs, plot_df, charts>>

(***************************************************************************)
(* st.button("A"): a click runs the script again from the top with every   *)
(* widget keeping its value; the table is the same.                        *)
(***************************************************************************)
PressA ==
    /\ pc = "done"
    /\ prev' = <<[pdf |-> pdf, download |-> download[1]]>>
    /\ rerun' = TRUE
    /\ pc' = "bounds"
    /\ min_ts' = NaT /\ max_ts' = NaT /\ default_start' = NaT
    /\ df' = {}
    /\ pdf' = NoRows
    /\ info' = None
    /\ kpi' = None /\ metric' = None
    /\ plot_df' = NoRows
    /\ temp_wide' = None /\ hum_wide' = None
    /\ download' = None
    /\ UNCHANGED <<base_df, widgets, sel_locs>>

Next ==
    \/ ResolveBounds
    \/ Sidebar
    \/ Filter
    \/ Aggregate
    \/ ComputeKpis
    \/ SelectLocations
    \/ Charts
    \/ Download

NextRerun == Next \/ PressA

Spec == Init /\ [][Next]_vars
SpecRerun == Init /\ [][NextRerun]_vars

(***************************************************************************)
(* Positions of a run.                                                     *)
(***************************************************************************)
\* df holds the filtered readings.
Filtered ==
    pc \in {"aggregate", "kpis", "stopped", "select", "charts", "download", "done",
            "raised_charts"}
\* pdf holds the Aggregate Rows.
Aggregated ==
    pc \in {"kpis", "stopped", "select", "charts", "download", "done", "raised_charts"}
\* The `if pdf.empty` test has been made.
Checked == pc \in {"stopped", "select", "charts", "download", "done", "raised_charts"}
\* The location selection has been made.
Selected == pc \in {"charts", "download", "done", "raised_charts"}
\* The charts step has acted.
Charted == pc \in {"download", "done", "raised_charts"}

RowIndex(frame) == 1 .. Len(frame)

\* The condition of the Filter Builder's contract for one reading.
C1_Passes(r) ==
    /\ start_dt <= r.ts /\ r.ts <= end_dt
    /\ (sel_sites = {} \/ r.site \in sel_sites)
    /\ (sel_rooms = {} \/ r.room \in sel_rooms)

(***************************************************************************)
(* C1: a reading reaches the aggregation step iff lower <= ts <= upper     *)
(* (both inclusive) and (no site selected or its site is selected) and     *)
(* (no room selected or its room is selected); with both selections empty  *)
(* only the timestamp range decides.                                       *)
(***************************************************************************)
C1_FilterIff ==
    Filtered =>
        /\ df \subseteq base_df
        /\ \A r \in base_df : r \in df <=> C1_Passes(r)
        /\ (sel_sites = {} /\ sel_rooms = {}) =>
              df = { r \in base_df : start_dt <= r.ts /\ r.ts <= end_dt }

\* Both bounds are met by a kept reading, and a reading inside the range is
\* dropped for its site alone.
C1_Witness ==
    /\ pc = "aggregate"
    /\ \E r \in df : r.ts = start_dt
    /\ \E r \in df : r.ts = end_dt
    /\ sel_sites # {} /\ sel_rooms = {}
    /\ \E r \in base_df \ df : start_dt <= r.ts /\ r.ts <= end_dt

\* The filtered readings that have the row's key.
C2_Group(row) ==
    { r \in df : /\ DATE_TRUNC(granularity, r.ts) = row.TS_BUCKET
                 /\ r.site = row.SITE
                 /\ r.room = row.ROOM }

\* q = total / count, by cross-multiplication.
C2_IsMean(q, total, count) == q.den > 0 /\ q.num * count = total * q.den

(***************************************************************************)
(* C2: the aggregation emits exactly one row per (bucket, site, room) key  *)
(* that some filtered reading has and no other row, and the row's two      *)
(* averages are the arithmetic means over the readings of that key.        *)
(***************************************************************************)
C2_OneRowPerGroupWithMeans ==
    Aggregated =>
        /\ \A r \in df :
              Cardinality({ i \in RowIndex(pdf) : r \in C2_Group(pdf[i]) }) = 1
        /\ \A i \in RowIndex(pdf) :
              LET g == C2_Group(pdf[i])
              IN  /\ g # {}
                  /\ C2_IsMean(pdf[i].AVG_TEMP_C, SumOf(g, "temp_c"), Cardinality(g))
                  /\ C2_IsMean(pdf[i].AVG_HUMIDITY, SumOf(g, "humidity"), Cardinality(g))
        /\ \A i, j \in RowIndex(pdf) :
              (/\ pdf[i].TS_BUCKET = pdf[j].TS_BUCKET
               /\ pdf[i].SITE = pdf[j].SITE
               /\ pdf[i].ROOM = pdf[j].ROOM) => i = j

\* Scenario A: 08:00 and 08:30 of A/101 with 20, 22 and 50, 52, by the hour.
C2_Witness ==
    /\ pc = "kpis"
    /\ granularity = "hour"
    /\ df = { Reading(TS(0, 8, 0, 0), "A", "101", "s1", 20, 50),
              Reading(TS(0, 8, 30, 0), "A", "101", "s1", 22, 52) }
    /\ Len(pdf) = 1
    /\ pdf[1].TS_BUCKET = TS(0, 8, 0, 0)
    /\ pdf[1].SITE = "A" /\ pdf[1].ROOM = "101"
    /\ pdf[1].AVG_TEMP_C = [num |-> 21, den |-> 1]
    /\ pdf[1].AVG_HUMIDITY = [num |-> 51, den |-> 1]

\* The width of a bucket in seconds.
C3_Unit(g) ==
    CASE g = "minute" -> SecPerMin
      [] g = "hour"   -> SecPerHour
      [] g = "day"    -> SecPerDay

\* b is the one multiple of the unit in (t - unit, t].
C3_LargestBoundary(b, t, g) ==
    /\ b % C3_Unit(g) = 0
    /\ b <= t
    /\ t < b + C3_Unit(g)

(***************************************************************************)
(* C3: bucket(t, g) is the largest g-boundary not exceeding t, so it is    *)
(* <= t for every contributing reading and bucketing it again changes      *)
(* nothing.                                                                *)
(***************************************************************************)
C3_BucketIsFloor ==
    /\ \A r \in base_df : \A g \in Granularities :
          /\ C3_LargestBoundary(DATE_TRUNC(g, r.ts), r.ts, g)
          /\ DATE_TRUNC(g, DATE_TRUNC(g, r.ts)) = DATE_TRUNC(g, r.ts)
    /\ Aggregated =>
          /\ \A r \in df : \E i \in RowIndex(pdf) :
                /\ r.site = pdf[i].SITE /\ r.room = pdf[i].ROOM
                /\ C3_LargestBoundary(pdf[i].TS_BUCKET, r.ts, granularity)
          /\ \A i \in RowIndex(pdf) :
                DATE_TRUNC(granularity, pdf[i].TS_BUCKET) = pdf[i].TS_BUCKET

\* An hourly bucket strictly below a reading in the second half of its hour.
C3_Witness ==
    /\ pc = "kpis"
    /\ granularity = "hour"
    /\ \E r \in df : \E i \in RowIndex(pdf) :
          /\ MinuteOf(r.ts) >= 30
          /\ r.site = pdf[i].SITE /\ r.room = pdf[i].ROOM
          /\ pdf[i].TS_BUCKET = DATE_TRUNC("hour", r.ts)
          /\ pdf[i].TS_BUCKET < r.ts

(***************************************************************************)
(* C4: when filter + aggregate yield no Aggregate Row (as with every       *)
(* lower > upper), the run ends in the "no data" outcome and no later step *)
(* runs: no KPI, no location selection, no wide table, no CSV.             *)
(***************************************************************************)
C4_NoDataShortCircuit ==
    /\ (Aggregated /\ start_dt > end_dt) => Empty(pdf)
    /\ (Checked /\ Empty(pdf)) =>
          /\ pc = "stopped"
          /\ info = <<"No data found for the selected filters.">>
          /\ kpi = None /\ metric = None
          /\ sel_locs = {} /\ plot_df = NoRows
          /\ temp_wide = None /\ hum_wide = None
          /\ download = None
    /\ pc = "stopped" => (Empty(pdf) /\ ~ENABLED Next)
    /\ info # None => pc = "stopped"

\* An inverted range over a table that has readings.
C4_Witness ==
    /\ pc = "stopped"
    /\ start_dt > end_dt
    /\ base_df # {}

RECURSIVE C5_DenProduct(_)
C5_DenProduct(s) == IF Len(s) = 0 THEN 1 ELSE s[1].den * C5_DenProduct(Tail(s))

RECURSIVE C5_ScaledSum(_, _)
C5_ScaledSum(s, d) ==
    IF Len(s) = 0 THEN 0 ELSE s[1].num * (d \div s[1].den) + C5_ScaledSum(Tail(s), d)

\* m = (s[1] + ... + s[n]) / n, over the common denominator of the values.
C5_IsRowMean(m, s) ==
    LET d == C5_DenProduct(s)
    IN  m.den > 0 /\ m.num * d * Len(s) = C5_ScaledSum(s, d) * m.den

C5_IsMax(m, s) == (\E i \in 1 .. Len(s) : s[i] = m) /\ \A i \in 1 .. Len(s) : ~RatLess(m, s[i])
C5_IsMin(m, s) == (\E i \in 1 .. Len(s) : s[i] = m) /\ \A i \in 1 .. Len(s) : ~RatLess(s[i], m)

\* shown is q to the nearest 10^-places.
C5_Rounds(shown, q, places) ==
    /\ ~shown.nan
    /\ shown.places = places
    /\ 2 * Abs(shown.units * q.den - q.num * Pow10(places)) <= q.den

(***************************************************************************)
(* C5: the four KPIs are the mean, max and min of avg_temp_c and the       *)
(* unweighted mean of avg_humidity over ALL Aggregate Rows, each row once, *)
(* whatever locations are selected; the metrics show them with two         *)
(* decimals (humidity: one).                                               *)
(***************************************************************************)
C5_KpisOverAllRows ==
    (Checked /\ ~Empty(pdf)) =>
        /\ kpi # None /\ metric # None
        /\ LET k == kpi[1]
               m == metric[1]
               temps == Column(pdf, "AVG_TEMP_C")
               hums == Column(pdf, "AVG_HUMIDITY")
           IN  /\ C5_IsRowMean(k.avg_temp, temps)
               /\ C5_IsRowMean(k.avg_humidity, hums)
               /\ C5_IsMax(k.max_temp, temps)
               /\ C5_IsMin(k.min_temp, temps)
               /\ C5_Rounds(m.avg_temp, k.avg_temp, 2)
               /\ C5_Rounds(m.avg_humidity, k.avg_humidity, 1)
               /\ C5_Rounds(m.max_temp, k.max_temp, 2)
               /\ C5_Rounds(m.min_temp, k.min_temp, 2)

\* A strict, non-empty selection whose own mean differs from the KPI, over
\* rows of which one aggregates several readings.
C5_Witness ==
    /\ pc = "done"
    /\ ~Empty(plot_df)
    /\ Len(plot_df) < Len(pdf)
    /\ Cardinality(df) > Len(pdf)
    /\ SeriesMean(Column(plot_df, "AVG_TEMP_C")) # kpi[1].avg_temp
    /\ SeriesMean(Column(plot_df, "AVG_HUMIDITY")) # kpi[1].avg_humidity

\* wide is the table the contract describes for the metric `values`.
C6_IsWide(wide, values) ==
    /\ wide # None
    /\ LET w == wide[1]
           buckets == { plot_df[i].TS_BUCKET : i \in RowIndex(plot_df) }
       IN  /\ Range(w.index) = buckets
           /\ Len(w.index) = Cardinality(buckets)
           /\ \A i, j \in 1 .. Len(w.index) : i < j => w.index[i] < w.index[j]
           /\ w.columns = sel_locs
           /\ \A b \in buckets : \A l \in sel_locs :
                 LET rows == { i \in RowIndex(plot_df) :
                                 plot_df[i].TS_BUCKET = b /\ plot_df[i].location = l }
                 IN  IF rows = {}
                     THEN IsNaN(w.cell[<<b, l>>])
                     ELSE \A i \in rows : w.cell[<<b, l>>] = plot_df[i][values]

(***************************************************************************)
(* C6: for both metrics and every non-empty location selection the wide    *)
(* table has one row per distinct bucket of the restricted rows, ascending,*)
(* one column per selected location, the location's mean in a cell that    *)
(* has a row and the missing marker, never 0, in a cell that has none.     *)
(***************************************************************************)
C6_WideTablePerSelection ==
    (Charted /\ sel_locs # {}) =>
        /\ C6_IsWide(temp_wide, "AVG_TEMP_C")
        /\ C6_IsWide(hum_wide, "AVG_HUMIDITY")

(***************************************************************************)
(* C7: over an empty reading set the Bounds Resolver does not fail and     *)
(* returns the default window, min = now - 24 h and max = now, so the      *)
(* defaults seeded from it are valid timestamps with min <= max.           *)
(***************************************************************************)
C7_DefaultWindowWhenEmpty ==
    (base_df = {} /\ pc # "bounds") =>
        /\ pc # "raised_sidebar"
        /\ min_ts = UtcNow - SecPerDay
        /\ max_ts = UtcNow
        /\ min_ts # NaT /\ max_ts # NaT /\ default_start # NaT
        /\ min_ts <= max_ts

\* The warehouse's ascending order of the texts in use; NULL comes last.
C8_Collation == <<"101", "101 / X", "A", "A / 101", "None", "X", NULL>>
C8_Rank(v) == CHOOSE i \in 1 .. Len(C8_Collation) : C8_Collation[i] = v

\* a comes strictly before b by (bucket, site, room).
C8_Before(a, b) ==
    \/ a.TS_BUCKET < b.TS_BUCKET
    \/ /\ a.TS_BUCKET = b.TS_BUCKET
       /\ \/ C8_Rank(a.SITE) < C8_Rank(b.SITE)
          \/ /\ a.SITE = b.SITE
             /\ C8_Rank(a.ROOM) < C8_Rank(b.ROOM)

(***************************************************************************)
(* C8: the Aggregate Rows are handed on in ascending bucket order, rows of *)
(* equal bucket by site and then by room, so the set of rows fixes their   *)
(* order.                                                                  *)
(***************************************************************************)
C8_OrderedByBucketSiteRoom ==
    Aggregated => \A i, j \in RowIndex(pdf) : i < j => C8_Before(pdf[i], pdf[j])

(***************************************************************************)
(* C9: two runs with the same Filter Criteria and location selection over  *)
(* the same table give the same Aggregate Rows in the same order and the   *)
(* same CSV export, whatever order the warehouse returns equal-bucket rows *)
(* in.                                                                     *)
(***************************************************************************)
C9_RerunReproducesExport ==
    (pc = "done" /\ prev # None) =>
        /\ prev[1].pdf = pdf
        /\ prev[1].download = download[1]

(***************************************************************************)
(* C10: the wide reshape never fails on duplicate keys: distinct (site,    *)
(* room) pairs have distinct labels site + " / " + room, so no two         *)
(* restricted rows share a (bucket, label) pair.                           *)
(***************************************************************************)
C10_LabelsDistinct ==
    /\ pc # "raised_charts"
    /\ Selected =>
          /\ \A i, j \in RowIndex(pdf) :
                pdf[i].location = pdf[j].location =>
                    (pdf[i].SITE = pdf[j].SITE /\ pdf[i].ROOM = pdf[j].ROOM)
          /\ ~HasDuplicates(plot_df)
====
